---- MODULE Spec2Model ----
(***************************************************************************)
(* A model of the liquidity-pool registry of src/pair.go: the registry    *)
(* (UniswapV2), its pool records (Pair), the oriented views that Pair()   *)
(* and CreatePair() hand out, and the operations Mint, Burn and Swap.     *)
(*                                                                         *)
(* The Go code keeps every amount in a *big.Int.  Amounts, reserves and   *)
(* balances are modelled as integers; the one computation whose values    *)
(* leave the range of the model checker's integers, the product test of   *)
(* Swap, is computed on limb sequences, as math/big does.                  *)
(***************************************************************************)
EXTENDS Integers, Sequences, FiniteSets, TLC

(***************************************************************************)
(* Program constants.                                                      *)
(***************************************************************************)
minimumLiquidity == 1000

addressZero == ""

\* The factors of the fee-adjusted product test of Swap.
FeeScale == 1000

FeeNumerator == 3

KScale == 1000000

(***************************************************************************)
(* Bounds of the model.                                                    *)
(***************************************************************************)
\* Pool records CreatePair may allocate in one behaviour.
MaxRecs == 2

\* Successful calls of Mint, Burn and Swap in one behaviour of the registry.
MaxOps == 1

\* Successful calls of Mint, Burn and Swap in one behaviour of one pool.
MaxPoolOps == 3

\* The base of the limbs of a big integer.
LimbBase == 10000

\* Calls the threads start in one behaviour.
MaxCalls == 2

(***************************************************************************)
(* Arbitrary-precision helpers (math/big).                                 *)
(***************************************************************************)
Abs(n) == IF n < 0 THEN -n ELSE n

Sign(n) == IF n < 0 THEN -1 ELSE IF n = 0 THEN 0 ELSE 1

\* big.Int.Div: Euclidean division, for a divisor other than 0.
Div(x, y) == IF y > 0 THEN x \div y ELSE -(x \div (-y))

RECURSIVE ToLimbs(_)
\* The limbs of a natural number, least significant first; 0 has no limb.
ToLimbs(n) == IF n = 0 THEN << >> ELSE <<n % LimbBase>> \o ToLimbs(n \div LimbBase)

RECURSIVE Column(_, _, _, _)
\* The sum of x[i] * y[k - i + 1] over the i from `i` on: column k of x * y.
Column(x, y, k, i) ==
    IF i > Len(x) \/ i > k THEN 0
    ELSE (IF k - i + 1 <= Len(y) THEN x[i] * y[k - i + 1] ELSE 0) + Column(x, y, k, i + 1)

RECURSIVE Carry(_, _, _, _)
\* Schoolbook multiplication: the columns k.. of x * y plus the carry c.
Carry(x, y, k, c) ==
    IF k > Len(x) + Len(y)
    THEN ToLimbs(c)
    ELSE LET s == Column(x, y, k, 1) + c
         IN  <<s % LimbBase>> \o Carry(x, y, k + 1, s \div LimbBase)

RECURSIVE Trim(_)
Trim(x) == IF x # << >> /\ x[Len(x)] = 0 THEN Trim(SubSeq(x, 1, Len(x) - 1)) ELSE x

\* nat.mul
MulLimbs(x, y) == IF x = << >> \/ y = << >> THEN << >> ELSE Trim(Carry(x, y, 1, 0))

RECURSIVE CmpLimbsFrom(_, _, _)
CmpLimbsFrom(x, y, i) ==
    IF i = 0 THEN 0
    ELSE IF x[i] < y[i] THEN -1
    ELSE IF x[i] > y[i] THEN 1
    ELSE CmpLimbsFrom(x, y, i - 1)

\* nat.cmp
CmpLimbs(x, y) ==
    IF Len(x) < Len(y) THEN -1
    ELSE IF Len(x) > Len(y) THEN 1
    ELSE CmpLimbsFrom(x, y, Len(x))

\* A big integer: a sign and a magnitude.
Big(n) == [neg |-> n < 0, abs |-> ToLimbs(Abs(n))]

\* big.Int.Mul
BigMul(a, b) ==
    LET m == MulLimbs(a.abs, b.abs)
    IN  [neg |-> m # << >> /\ a.neg # b.neg, abs |-> m]

\* big.Int.Cmp: -1, 0 or 1
BigCmp(a, b) ==
    IF a.neg # b.neg THEN (IF a.neg THEN -1 ELSE 1)
    ELSE IF a.neg THEN -CmpLimbs(a.abs, b.abs)
    ELSE CmpLimbs(a.abs, b.abs)

RECURSIVE SqrtBetween(_, _, _)
\* The largest r in lo..hi with r * r <= n, given lo * lo <= n.
SqrtBetween(n, lo, hi) ==
    IF lo >= hi THEN lo
    ELSE LET mid == (lo + hi + 1) \div 2
         IN  IF mid * mid <= n THEN SqrtBetween(n, mid, hi) ELSE SqrtBetween(n, lo, mid - 1)

\* big.Int.Sqrt of a number that is not negative: floor of the square root.
Sqrt(n) == SqrtBetween(n, 0, IF n < 46340 THEN n ELSE 46340)

(***************************************************************************)
(* Inputs of the model.                                                    *)
(***************************************************************************)
Tokens == {0, 1}

Addresses == {addressZero, "a"}

\* The amounts <<amount0, amount1>> a caller passes to Mint.
MintChoices ==
    {<<1000, 1000>>, <<2000, 2000>>, <<1000, 4000>>, <<4000, 2000>>, <<100, 10100>>,
     <<-2000, -2000>>, <<-2000, 2000>>}

\* Gross amounts a caller pays into a one-sided Swap.
SwapIns == {100}

\* Swap calls with arguments <<amount0In, amount1In, amount0Out, amount1Out>>
\* that are not one-sided.
FixedSwaps == {<<0, 0, 0, 0>>, <<0, 0, 10, 0>>, <<100, 100, 50, 50>>, <<-100, 0, 0, 10>>}

\* The calls of the threads: the tokens <<coinA, coinB>> of CreatePair and
\* Pair, the amounts of Mint, the liquidity of Burn and Amounts, and the
\* arguments of Swap.
ConcKeys == {<<0, 1>>, <<1, 0>>, <<0, 0>>}

ConcMints == {<<1000, 4000>>}

ConcBurns == {600, 1000}

ConcSwaps == {<<100, 0, 0, 90>>, <<0, 100, 90, 0>>}

(***************************************************************************)
(* State.                                                                  *)
(*   pairs            UniswapV2.pairs: pairKey -> *Pair                    *)
(*   keyPairs         UniswapV2.keyPairs                                   *)
(*   isDirtyKeyPairs  UniswapV2.isDirtyKeyPairs                            *)
(*   heap             the objects CreatePair allocates, one entry per      *)
(*                    call: the two reserve integers c0 and c1, the total  *)
(*                    supply, the balances map and the dirty flags         *)
(*   held             the *Pair values CreatePair has returned to callers  *)
(*   nops             successful Mint, Burn and Swap calls so far          *)
(*   last             the last call: operation, receiver, arguments,       *)
(*                    error and results                                    *)
(*   pc               where each thread is in the call it is making        *)
(*   frame            the call each thread is making: operation, receiver, *)
(*                    arguments, local variables, error and results        *)
(*   locks            the mutexes held and waited for                      *)
(*   calls            calls threads have started so far                    *)
(***************************************************************************)
VARIABLES pairs, keyPairs, isDirtyKeyPairs, heap, held, nops, last, pc, frame, locks, calls

vars == <<pairs, keyPairs, isDirtyKeyPairs, heap, held, nops, last, pc, frame, locks, calls>>

\* The state of the threads.
threads == <<pc, frame, locks, calls>>

\* Errors; Panic is a run-time panic of the Go code, which is no error value.
Ok == "ok"

ErrorIdenticalAddresses == "IDENTICAL_ADDRESSES"

ErrorPairExists == "PAIR_EXISTS"

ErrorInsufficientLiquidityMinted == "INSUFFICIENT_LIQUIDITY_MINTED"

ErrorInsufficientLiquidityBurned == "INSUFFICIENT_LIQUIDITY_BURNED"

ErrorK == "K"

ErrorInsufficientInputAmount == "INSUFFICIENT_INPUT_AMOUNT"

ErrorInsufficientOutputAmount == "INSUFFICIENT_OUTPUT_AMOUNT"

ErrorInsufficientLiquidity == "INSUFFICIENT_LIQUIDITY"

Panic == "panic"

\* The threads that call the registry and its pools at the same time.
Threads == {1, 2}

\* The frame of a thread that has made no call.  loc holds the local
\* variables of the call, h0 the heap when the call started.
NoFrame ==
    [op |-> "none", p |-> [rec |-> 0, reserve0 |-> "nil", reserve1 |-> "nil"],
     addr |-> addressZero, args |-> << >>, loc |-> << >>, h0 |-> << >>,
     err |-> Ok, ret |-> << >>]

\* A nil *big.Int is the empty sequence, a big.Int n is <<n>>.
NilInt == << >>

\* A *Pair is the record it points into and the two reserve integers its
\* pairData names reserve0 and reserve1; the total supply, the balances map,
\* the dirty flags and the two mutexes are those of the record.  The nil
\* *Pair points at no record.
NilPair == [rec |-> 0, reserve0 |-> "nil", reserve1 |-> "nil"]

(***************************************************************************)
(* pairKey                                                                 *)
(***************************************************************************)
PairKey(coinA, coinB) == [TokenA |-> coinA, TokenB |-> coinB]

isSorted(pk) == pk.TokenA < pk.TokenB

KeyRevert(pk) == [TokenA |-> pk.TokenB, TokenB |-> pk.TokenA]

sort(pk) == IF isSorted(pk) THEN pk ELSE KeyRevert(pk)

(***************************************************************************)
(* pairData and the registry's lookup                                      *)
(***************************************************************************)
\* pairData.Revert, on the *Pair holding the pairData
Revert(p) == [rec |-> p.rec, reserve0 |-> p.reserve1, reserve1 |-> p.reserve0]

TotalSupply(hp, p) == hp[p.rec].totalSupply

Reserves(hp, p) == <<hp[p.rec][p.reserve0], hp[p.rec][p.reserve1]>>

\* UniswapV2.pair
pair(prs, key) ==
    IF isSorted(key)
    THEN IF key \in DOMAIN prs THEN prs[key] ELSE NilPair
    ELSE IF sort(key) \in DOMAIN prs THEN Revert(prs[sort(key)]) ELSE NilPair

\* UniswapV2.Pair
Pair(coinA, coinB) == pair(pairs, PairKey(coinA, coinB))

\* UniswapV2.Pairs
Pairs == keyPairs

\* UniswapV2.addPair: the map after the insertion.  key.Revert() returns the
\* reverted key and the code drops it, so the key of the new entry is the
\* caller's key.
addPair(prs, key, data) ==
    LET stored == IF ~isSorted(key) THEN Revert(data) ELSE data
    IN  [k \in DOMAIN prs \cup {key} |-> IF k = key THEN stored ELSE prs[k]]

\* UniswapV2.addKeyPair
addKeyPair(kps, key) == Append(kps, sort(key))

\* The objects of line 129 and the flags of lines 158-161.
NewRecord ==
    [c0 |-> 0, c1 |-> 0, totalSupply |-> 0, balances |-> << >>,
     isDirty |-> FALSE, isDirtyBalances |-> FALSE]

Init ==
    /\ pairs = << >>
    /\ keyPairs = << >>
    /\ isDirtyKeyPairs = FALSE
    /\ heap = << >>
    /\ held = {}
    /\ nops = 0
    /\ last = [op |-> "New", p |-> NilPair, addr |-> addressZero, args |-> << >>,
               err |-> Ok, ret |-> << >>]
    /\ pc = [t \in Threads |-> "idle"]
    /\ frame = [t \in Threads |-> NoFrame]
    /\ locks = {}
    /\ calls = 0

\* UniswapV2.CreatePair
CreatePair(coinA, coinB) ==
    LET key == PairKey(coinA, coinB)
        n == Len(heap) + 1
        data == [rec |-> n, reserve0 |-> "c0", reserve1 |-> "c1"]
        prs == addPair(pairs, key, data)
        made == prs[key]
        result == IF ~isSorted(key) THEN Revert(made) ELSE made
    IN  IF coinA = coinB
        THEN /\ last' = [op |-> "CreatePair", p |-> NilPair, addr |-> addressZero,
                         args |-> <<coinA, coinB>>, err |-> ErrorIdenticalAddresses,
                         ret |-> << >>]
             /\ UNCHANGED <<pairs, keyPairs, isDirtyKeyPairs, heap, held, nops, threads>>
        ELSE IF Pair(coinA, coinB) # NilPair
        THEN /\ last' = [op |-> "CreatePair", p |-> NilPair, addr |-> addressZero,
                         args |-> <<coinA, coinB>>, err |-> ErrorPairExists,
                         ret |-> << >>]
             /\ UNCHANGED <<pairs, keyPairs, isDirtyKeyPairs, heap, held, nops, threads>>
        ELSE /\ heap' = Append(heap, NewRecord)
             /\ pairs' = prs
             /\ keyPairs' = addKeyPair(keyPairs, key)
             /\ isDirtyKeyPairs' = TRUE
             /\ held' = held \cup {result}
             /\ last' = [op |-> "CreatePair", p |-> result, addr |-> addressZero,
                         args |-> <<coinA, coinB>>, err |-> Ok, ret |-> << >>]
             /\ UNCHANGED <<nops, threads>>

(***************************************************************************)
(* Pair: the operations on a pool, called on a *Pair p.  Each takes the    *)
(* heap and returns the heap after the call, the error and the results.    *)
(***************************************************************************)
\* Pair.Balance: nil for an address the map does not hold
Balance(hp, p, address) ==
    IF address \in DOMAIN hp[p.rec].balances THEN <<hp[p.rec].balances[address]>> ELSE NilInt

\* Pair.mint without the flag of the balances
mintNoBalancesFlag(hp, p, address, value) ==
    LET flagged == [hp EXCEPT ![p.rec].isDirty = TRUE]
        old == IF address \in DOMAIN hp[p.rec].balances THEN hp[p.rec].balances[address] ELSE 0
    IN  IF value = << >>
        THEN flagged
        ELSE [flagged EXCEPT
                ![p.rec].totalSupply = @ + value[1],
                ![p.rec].balances =
                    [a \in DOMAIN @ \cup {address} |->
                        IF a = address THEN old + value[1] ELSE @[a]]]

\* Pair.mint without the addition to the balance of the address
mintSupplyOnly(hp, p, address, value) ==
    LET flagged == [hp EXCEPT ![p.rec].isDirtyBalances = TRUE, ![p.rec].isDirty = TRUE]
    IN  IF value = << >>
        THEN flagged
        ELSE [flagged EXCEPT
                ![p.rec].totalSupply = @ + value[1],
                ![p.rec].balances =
                    [a \in DOMAIN @ \cup {address} |-> IF a \in DOMAIN @ THEN @[a] ELSE 0]]

\* Pair.mint.  Add dereferences its argument: with a nil value it panics
\* once the flags are set, and the deferred unlocks run.
mint(hp, p, address, value) ==
    LET flagged == [hp EXCEPT ![p.rec].isDirtyBalances = TRUE, ![p.rec].isDirty = TRUE]
        old == IF address \in DOMAIN hp[p.rec].balances THEN hp[p.rec].balances[address] ELSE 0
    IN  IF value = NilInt
        THEN flagged
        ELSE [flagged EXCEPT
                ![p.rec].totalSupply = @ + value[1],
                ![p.rec].balances =
                    [a \in DOMAIN @ \cup {address} |->
                        IF a = address THEN old + value[1] ELSE @[a]]]

\* Pair.burn without the subtraction from the total supply
burnKeepsSupply(hp, p, address, value) ==
    [hp EXCEPT ![p.rec].isDirtyBalances = TRUE,
               ![p.rec].isDirty = TRUE,
               ![p.rec].balances[address] = @ - value]

\* Pair.burn
burn(hp, p, address, value) ==
    [hp EXCEPT ![p.rec].isDirtyBalances = TRUE,
               ![p.rec].isDirty = TRUE,
               ![p.rec].balances[address] = @ - value,
               ![p.rec].totalSupply = @ - value]

\* Pair.update
update(hp, p, amount0, amount1) ==
    [hp EXCEPT ![p.rec] =
        [[@ EXCEPT !.isDirty = TRUE, ![p.reserve0] = @ + amount0]
            EXCEPT ![p.reserve1] = @ + amount1]]

\* Pair.Amounts rounding up
AmountsRoundedUp(hp, p, liquidity) ==
    <<Div(liquidity * Reserves(hp, p)[1] + TotalSupply(hp, p) - 1, TotalSupply(hp, p)),
      Div(liquidity * Reserves(hp, p)[2] + TotalSupply(hp, p) - 1, TotalSupply(hp, p))>>

\* Pair.Amounts, for a total supply other than 0
Amounts(hp, p, liquidity) ==
    <<Div(liquidity * Reserves(hp, p)[1], TotalSupply(hp, p)),
      Div(liquidity * Reserves(hp, p)[2], TotalSupply(hp, p))>>

\* startingSupply without the subtraction of the minimum liquidity
startingSupplyWhole(amount0, amount1) == Sqrt(amount0 * amount1)

\* startingSupply, for a product that is not negative
startingSupply(amount0, amount1) == Sqrt(amount0 * amount1) - minimumLiquidity

Returns(hp, err, ret) == [heap |-> hp, err |-> err, ret |-> ret]

\* Pair.Mint.  In the else branch `liquidity :=` declares a new variable, so
\* the result `liquidity` that mint receives after the branch is still nil.
Mint(hp, p, address, amount0, amount1) ==
    IF Sign(TotalSupply(hp, p)) = 0
    THEN IF amount0 * amount1 < 0
         THEN Returns(hp, Panic, << >>)                \* Sqrt of a negative number
         ELSE LET liquidity == startingSupply(amount0, amount1)
              IN  IF Sign(liquidity) # 1
                  THEN Returns(hp, ErrorInsufficientLiquidityMinted, << >>)
                  ELSE Returns(
                         update(mint(mint(hp, p, addressZero, <<minimumLiquidity>>),
                                     p, address, <<liquidity>>),
                                p, amount0, amount1),
                         Ok, <<liquidity>>)
    ELSE IF Reserves(hp, p)[1] = 0 \/ Reserves(hp, p)[2] = 0
         THEN Returns(hp, Panic, << >>)                \* division by zero
         ELSE Returns(mint(hp, p, address, NilInt), Panic, << >>)

\* Pair.Burn without the test of the amounts
BurnAnyAmounts(hp, p, address, liquidity) ==
    LET balance == Balance(hp, p, address)
    IN  IF balance = NilInt
        THEN Returns(hp, ErrorInsufficientLiquidityBurned, << >>)
        ELSE IF liquidity > balance[1]
        THEN Returns(hp, ErrorInsufficientLiquidityBurned, << >>)
        ELSE IF TotalSupply(hp, p) = 0
        THEN Returns(hp, Panic, << >>)
        ELSE LET amounts == Amounts(hp, p, liquidity)
             IN  Returns(update(burn(hp, p, address, liquidity),
                                p, -amounts[1], -amounts[2]),
                         Ok, amounts)

\* Pair.Burn
Burn(hp, p, address, liquidity) ==
    LET balance == Balance(hp, p, address)
    IN  IF balance = NilInt
        THEN Returns(hp, ErrorInsufficientLiquidityBurned, << >>)
        ELSE IF liquidity > balance[1]
        THEN Returns(hp, ErrorInsufficientLiquidityBurned, << >>)
        ELSE IF TotalSupply(hp, p) = 0
        THEN Returns(hp, Panic, << >>)                 \* Amounts divides by zero
        ELSE LET amounts == Amounts(hp, p, liquidity)
             IN  IF Sign(amounts[1]) # 1 \/ Sign(amounts[2]) # 1
                 THEN Returns(hp, ErrorInsufficientLiquidityBurned, << >>)
                 ELSE Returns(update(burn(hp, p, address, liquidity),
                                     p, -amounts[1], -amounts[2]),
                              Ok, amounts)

\* The test of line 274 with the comparison the other way round
KViolatedReversed(balance0Adjusted, balance1Adjusted, reserve0, reserve1) ==
    BigCmp(BigMul(Big(balance0Adjusted), Big(balance1Adjusted)),
           BigMul(BigMul(Big(reserve0), Big(reserve1)), Big(KScale))) = 1

\* The test of line 274: the product of the adjusted balances is less than
\* the product of the reserves times 1000000.
KViolated(balance0Adjusted, balance1Adjusted, reserve0, reserve1) ==
    BigCmp(BigMul(Big(balance0Adjusted), Big(balance1Adjusted)),
           BigMul(BigMul(Big(reserve0), Big(reserve1)), Big(KScale))) = -1

\* Lines 271 and 272 without the fee
AdjustedNoFee(amount, reserve, amountIn) == (amount + reserve) * FeeScale

\* Lines 271 and 272
Adjusted(amount, reserve, amountIn) == (amount + reserve) * FeeScale - amountIn * FeeNumerator

\* Pair.Swap with the test of the product before the test of the net amounts
SwapKBeforeInput(hp, p, amount0In, amount1In, amount0Out, amount1Out) ==
    LET reserve0 == Reserves(hp, p)[1]
        reserve1 == Reserves(hp, p)[2]
        amount0 == amount0In - amount0Out
        amount1 == amount1In - amount1Out
    IN  IF Sign(amount0Out) # 1 /\ Sign(amount1Out) # 1
        THEN Returns(hp, ErrorInsufficientOutputAmount, << >>)
        ELSE IF amount0Out > reserve0 \/ amount1Out > reserve1
        THEN Returns(hp, ErrorInsufficientLiquidity, << >>)
        ELSE IF KViolated(Adjusted(amount0, reserve0, amount0In),
                          Adjusted(amount1, reserve1, amount1In), reserve0, reserve1)
        THEN Returns(hp, ErrorK, << >>)
        ELSE IF Sign(amount0) # 1 /\ Sign(amount1) # 1
        THEN Returns(hp, ErrorInsufficientInputAmount, << >>)
        ELSE Returns(update(hp, p, amount0, amount1), Ok, <<amount0, amount1>>)

\* Pair.Swap
Swap(hp, p, amount0In, amount1In, amount0Out, amount1Out) ==
    LET reserve0 == Reserves(hp, p)[1]
        reserve1 == Reserves(hp, p)[2]
        amount0 == amount0In - amount0Out
        amount1 == amount1In - amount1Out
    IN  IF Sign(amount0Out) # 1 /\ Sign(amount1Out) # 1
        THEN Returns(hp, ErrorInsufficientOutputAmount, << >>)
        ELSE IF amount0Out > reserve0 \/ amount1Out > reserve1
        THEN Returns(hp, ErrorInsufficientLiquidity, << >>)
        ELSE IF Sign(amount0) # 1 /\ Sign(amount1) # 1
        THEN Returns(hp, ErrorInsufficientInputAmount, << >>)
        ELSE IF KViolated(Adjusted(amount0, reserve0, amount0In),
                          Adjusted(amount1, reserve1, amount1In), reserve0, reserve1)
        THEN Returns(hp, ErrorK, << >>)
        ELSE Returns(update(hp, p, amount0, amount1), Ok, <<amount0, amount1>>)

(***************************************************************************)
(* The callers.                                                            *)
(***************************************************************************)
\* The *Pair values a caller can call an operation on: those CreatePair
\* returned and those Pair returns now.
Views == (held \cup {Pair(coinA, coinB) : coinA \in Tokens, coinB \in Tokens}) \ {NilPair}

\* Liquidity a caller asks Burn to redeem.
BurnChoices(p, address) ==
    {0, 500}
        \cup (IF Balance(heap, p, address) = NilInt THEN {}
              ELSE {Balance(heap, p, address)[1], Balance(heap, p, address)[1] + 1})

\* The largest output a one-sided Swap of x can take from reserves rIn, rOut.
MaxOut(x, rIn, rOut) == (997 * x * rOut) \div (1000 * rIn + 997 * x)

\* Outputs a caller asks of a one-sided Swap.
OutChoices(x, rIn, rOut) ==
    {rOut + 1}
        \cup (IF rIn > 0 /\ rOut > 0
              THEN {MaxOut(x, rIn, rOut), MaxOut(x, rIn, rOut) + 1} ELSE {})

\* The arguments of the Swap calls made on p.
SwapChoices(p) ==
    LET r == Reserves(heap, p)
    IN  FixedSwaps
          \cup UNION {{<<x, 0, 0, y>> : y \in OutChoices(x, r[1], r[2])} : x \in SwapIns}
          \cup UNION {{<<0, x, y, 0>> : y \in OutChoices(x, r[2], r[1])} : x \in SwapIns}

\* The step of a call on p that returned r.
Called(op, p, address, args, r) ==
    /\ heap' = r.heap
    /\ nops' = IF r.err = Ok THEN nops + 1 ELSE nops
    /\ last' = [op |-> op, p |-> p, addr |-> address, args |-> args,
                err |-> r.err, ret |-> r.ret]
    /\ UNCHANGED <<pairs, keyPairs, isDirtyKeyPairs, held, threads>>

MintCall(p, address, amount0, amount1) ==
    Called("Mint", p, address, <<amount0, amount1>>, Mint(heap, p, address, amount0, amount1))

BurnCall(p, address, liquidity) ==
    Called("Burn", p, address, <<liquidity>>, Burn(heap, p, address, liquidity))

SwapCall(p, a) ==
    Called("Swap", p, addressZero, a, Swap(heap, p, a[1], a[2], a[3], a[4]))

\* The behaviours explored allocate at most maxRecs records and make at most
\* maxOps successful calls of Mint, Burn and Swap.
Within(maxRecs, maxOps) == Len(heap') <= maxRecs /\ nops' <= maxOps

Step(maxRecs, maxOps) ==
    \/ \E coinA \in Tokens, coinB \in Tokens :
          CreatePair(coinA, coinB) /\ Within(maxRecs, maxOps)
    \/ \E p \in Views, address \in Addresses, a \in MintChoices :
          MintCall(p, address, a[1], a[2]) /\ Within(maxRecs, maxOps)
    \/ \E p \in Views, address \in Addresses :
          \E liquidity \in BurnChoices(p, address) :
              BurnCall(p, address, liquidity) /\ Within(maxRecs, maxOps)
    \/ \E p \in Views : \E a \in SwapChoices(p) :
          SwapCall(p, a) /\ Within(maxRecs, maxOps)

\* The registry with its pools.
Next == Step(MaxRecs, MaxOps)

Spec == Init /\ [][Next]_vars

\* One pool, created in either order of its tokens.
PoolNext == Step(1, MaxPoolOps)

PoolSpec == Init /\ [][PoolNext]_vars

(***************************************************************************)
(* Threads.  A call is made step by step; a step is a Lock or an RLock, a  *)
(* critical section up to its deferred unlocks, or a line that reads a     *)
(* shared integer without holding its mutex.  Such a read sees the integer *)
(* as it is when the step is taken.                                        *)
(***************************************************************************)
Mutex(name, rec) == [name |-> name, rec |-> rec]

\* UniswapV2.muPairs
muPairs == Mutex("muPairs", 0)

\* pairData.RWMutex of the record of p; Revert hands the same mutex on
RWMutex(p) == Mutex("RWMutex", p.rec)

\* Pair.muBalance of the record of p
muBalance(p) == Mutex("muBalance", p.rec)

Hold(mu, t, mode) == [mu |-> mu, t |-> t, mode |-> mode]

\* The writers holding or waiting for mu, and the readers holding it.
Writing(mu) == {h \in locks : h.mu = mu /\ h.mode # "r"}

Reading(mu) == {h \in locks : h.mu = mu /\ h.mode = "r"}

\* sync.RWMutex.Lock by t, going on at next: the writer excludes the other
\* writers and new readers, and holds the mutex once the readers have left.
CanLock(t, mu) ==
    /\ \A h \in Writing(mu) : h.t = t
    /\ Reading(mu) # {} => Hold(mu, t, "pending") \notin locks

Lock(t, mu, next) ==
    /\ CanLock(t, mu)
    /\ IF Reading(mu) # {}
       THEN /\ locks' = locks \cup {Hold(mu, t, "pending")}
            /\ pc' = pc
       ELSE /\ locks' = (locks \ {Hold(mu, t, "pending")}) \cup {Hold(mu, t, "w")}
            /\ pc' = [pc EXCEPT ![t] = next]

\* sync.RWMutex.RLock by t: blocks while a writer holds or waits for mu.
CanRLock(t, mu) == Writing(mu) = {}

RLock(t, mu, next) ==
    /\ CanRLock(t, mu)
    /\ locks' = locks \cup {Hold(mu, t, "r")}
    /\ pc' = [pc EXCEPT ![t] = next]

\* The locks after the Unlock or RUnlock of the mutexes mus by t.
Unlock(t, mus) == {h \in locks : ~(h.t = t /\ h.mu \in mus)}

\* The Lock() calls: at label l of a call on p, the mutex and the label after.
LockAt(l, p) ==
    CASE l = "Pair.Lock" -> <<muPairs, "Pair.pair">>
      [] l = "CreatePair.Lock" -> <<muPairs, "CreatePair.addPair">>
      [] l = "mint0.Lock" -> <<RWMutex(p), "mint0.muBalance">>
      [] l = "mint0.muBalance" -> <<muBalance(p), "mint0">>
      [] l = "mint.Lock" -> <<RWMutex(p), "mint.muBalance">>
      [] l = "mint.muBalance" -> <<muBalance(p), "mint">>
      [] l = "burn.Lock" -> <<RWMutex(p), "burn.muBalance">>
      [] l = "burn.muBalance" -> <<muBalance(p), "burn">>
      [] l = "update.Lock" -> <<RWMutex(p), "update.317">>

LockLabels ==
    {"Pair.Lock", "CreatePair.Lock", "mint0.Lock", "mint0.muBalance", "mint.Lock",
     "mint.muBalance", "burn.Lock", "burn.muBalance", "update.Lock"}

\* The RLock() calls.
RLockAt(l, p) ==
    CASE l = "TotalSupply.RLock" -> <<RWMutex(p), "TotalSupply">>
      [] l = "Reserves.RLock" -> <<RWMutex(p), "Reserves">>
      [] l = "Amounts.RLock" -> <<RWMutex(p), "Amounts">>
      [] l = "Balance.RLock" -> <<muBalance(p), "Balance">>

RLockLabels == {"TotalSupply.RLock", "Reserves.RLock", "Amounts.RLock", "Balance.RLock"}

\* The call of t ends with err and ret.
Finish(t, err, ret) ==
    /\ pc' = [pc EXCEPT ![t] = "done"]
    /\ frame' = [frame EXCEPT ![t].err = err, ![t].ret = ret]

\* The call of t goes on at label l with the local variables loc.
Goto(t, l, loc) ==
    /\ pc' = [pc EXCEPT ![t] = l]
    /\ frame' = [frame EXCEPT ![t].loc = loc]

\* The calls a thread can start: operation, receiver, address, arguments and
\* first label.
ConcCalls ==
    {<<"CreatePair", NilPair, addressZero, k, "CreatePair.120">> : k \in ConcKeys}
      \cup {<<"Pair", NilPair, addressZero, k, "Pair.Lock">> : k \in ConcKeys}
      \cup {<<"Mint", p, "a", a, "TotalSupply.RLock">> : p \in Views, a \in ConcMints}
      \cup {<<"Burn", p, "a", <<l>>, "Balance.RLock">> : p \in Views, l \in ConcBurns}
      \cup {<<"Swap", p, addressZero, a, "Swap.254">> : p \in Views, a \in ConcSwaps}
      \cup {<<"TotalSupply", p, addressZero, << >>, "TotalSupply.RLock">> : p \in Views}
      \cup {<<"Reserves", p, addressZero, << >>, "Reserves.RLock">> : p \in Views}
      \cup {<<"Amounts", p, addressZero, <<l>>, "Amounts.RLock">> : p \in Views, l \in ConcBurns}
      \cup {<<"Balance", p, address, << >>, "Balance.RLock">> : p \in Views, address \in Addresses}

\* A thread starts a call; thread 2 starts none before thread 1 has.
Begin(t) ==
    /\ pc[t] \in {"idle", "done"}
    /\ calls < MaxCalls
    /\ \A u \in Threads : u < t => pc[u] # "idle"
    /\ \E c \in ConcCalls :
          /\ pc' = [pc EXCEPT ![t] = c[5]]
          /\ frame' = [frame EXCEPT ![t] =
                [op |-> c[1], p |-> c[2], addr |-> c[3], args |-> c[4], loc |-> << >>,
                 h0 |-> IF c[1] \in {"Mint", "Burn", "Swap"} THEN heap ELSE << >>,
                 err |-> Ok, ret |-> << >>]]
    /\ calls' = calls + 1
    /\ UNCHANGED <<pairs, keyPairs, isDirtyKeyPairs, heap, held, nops, last, locks>>

LockStep(t) ==
    /\ pc[t] \in LockLabels
    /\ Lock(t, LockAt(pc[t], frame[t].p)[1], LockAt(pc[t], frame[t].p)[2])
    /\ UNCHANGED <<pairs, keyPairs, isDirtyKeyPairs, heap, held, nops, last, frame, calls>>

RLockStep(t) ==
    /\ pc[t] \in RLockLabels
    /\ RLock(t, RLockAt(pc[t], frame[t].p)[1], RLockAt(pc[t], frame[t].p)[2])
    /\ UNCHANGED <<pairs, keyPairs, isDirtyKeyPairs, heap, held, nops, last, frame, calls>>

\* UniswapV2.CreatePair, lines 120 to 124
CreatePair120(t) ==
    /\ pc[t] = "CreatePair.120"
    /\ IF frame[t].args[1] = frame[t].args[2]
       THEN Finish(t, ErrorIdenticalAddresses, << >>)
       ELSE Goto(t, "Pair.Lock", << >>)
    /\ UNCHANGED <<pairs, keyPairs, isDirtyKeyPairs, heap, held, nops, last, locks, calls>>

\* UniswapV2.Pair holding muPairs: the lookup and the deferred Unlock; for
\* CreatePair, then lines 125 to 129.
PairLookup(t) ==
    /\ pc[t] = "Pair.pair"
    /\ LET found == Pair(frame[t].args[1], frame[t].args[2])
       IN  IF frame[t].op = "Pair" THEN Finish(t, Ok, <<found>>)
           ELSE IF found # NilPair THEN Finish(t, ErrorPairExists, << >>)
           ELSE Goto(t, "CreatePair.Lock", << >>)
    /\ locks' = Unlock(t, {muPairs})
    /\ UNCHANGED <<pairs, keyPairs, isDirtyKeyPairs, heap, held, nops, last, calls>>

\* UniswapV2.CreatePair holding muPairs: lines 134 to 145 and the deferred
\* Unlock.
AddPair(t) ==
    /\ pc[t] = "CreatePair.addPair"
    /\ LET key == PairKey(frame[t].args[1], frame[t].args[2])
           data == [rec |-> Len(heap) + 1, reserve0 |-> "c0", reserve1 |-> "c1"]
           prs == addPair(pairs, key, data)
           result == IF ~isSorted(key) THEN Revert(prs[key]) ELSE prs[key]
       IN  /\ heap' = Append(heap, NewRecord)
           /\ pairs' = prs
           /\ keyPairs' = addKeyPair(keyPairs, key)
           /\ isDirtyKeyPairs' = TRUE
           /\ held' = held \cup {result}
           /\ Finish(t, Ok, <<result>>)
    /\ locks' = Unlock(t, {muPairs})
    /\ UNCHANGED <<nops, last, calls>>

\* pairData.TotalSupply holding the read lock: the RUnlock and the return of
\* the pointer; Mint goes on at line 200.
TotalSupplyReturn(t) ==
    /\ pc[t] = "TotalSupply"
    /\ IF frame[t].op = "Mint" THEN Goto(t, "Mint.200", << >>)
       ELSE Finish(t, Ok, <<TotalSupply(heap, frame[t].p)>>)
    /\ locks' = Unlock(t, {RWMutex(frame[t].p)})
    /\ UNCHANGED <<pairs, keyPairs, isDirtyKeyPairs, heap, held, nops, last, calls>>

\* pairData.Reserves holding the read lock; Swap goes on at line 260.
ReservesReturn(t) ==
    /\ pc[t] = "Reserves"
    /\ IF frame[t].op = "Swap" THEN Goto(t, "Swap.260a", << >>)
       ELSE Finish(t, Ok, Reserves(heap, frame[t].p))
    /\ locks' = Unlock(t, {RWMutex(frame[t].p)})
    /\ UNCHANGED <<pairs, keyPairs, isDirtyKeyPairs, heap, held, nops, last, calls>>

\* Pair.Amounts holding the read lock; Burn goes on at line 236.
AmountsBody(t) ==
    /\ pc[t] = "Amounts"
    /\ LET f == frame[t]
       IN  IF TotalSupply(heap, f.p) = 0 THEN Finish(t, Panic, << >>)
           ELSE IF f.op = "Amounts" THEN Finish(t, Ok, Amounts(heap, f.p, f.args[1]))
           ELSE IF \/ Sign(Amounts(heap, f.p, f.args[1])[1]) # 1
                   \/ Sign(Amounts(heap, f.p, f.args[1])[2]) # 1
           THEN Finish(t, ErrorInsufficientLiquidityBurned, << >>)
           ELSE Goto(t, "burn.Lock", Amounts(heap, f.p, f.args[1]))
    /\ locks' = Unlock(t, {RWMutex(frame[t].p)})
    /\ UNCHANGED <<pairs, keyPairs, isDirtyKeyPairs, heap, held, nops, last, calls>>

\* Pair.Balance holding the read lock of muBalance; Burn goes on at line 226.
BalanceBody(t) ==
    /\ pc[t] = "Balance"
    /\ LET f == frame[t]
           balance == Balance(heap, f.p, f.addr)
       IN  IF f.op = "Balance" THEN Finish(t, Ok, balance)
           ELSE IF balance = NilInt THEN Finish(t, ErrorInsufficientLiquidityBurned, << >>)
           ELSE IF f.args[1] > balance[1]
           THEN Finish(t, ErrorInsufficientLiquidityBurned, << >>)
           ELSE Goto(t, "Amounts.RLock", << >>)
    /\ locks' = Unlock(t, {muBalance(frame[t].p)})
    /\ UNCHANGED <<pairs, keyPairs, isDirtyKeyPairs, heap, held, nops, last, calls>>

\* Pair.Mint, lines 200 to 204: the Sign of the total supply read after the
\* RUnlock, and the first branch up to the call of mint.
Mint200(t) ==
    /\ pc[t] = "Mint.200"
    /\ LET f == frame[t]
       IN  IF Sign(TotalSupply(heap, f.p)) # 0 THEN Goto(t, "Mint.207", << >>)
           ELSE IF f.args[1] * f.args[2] < 0 THEN Finish(t, Panic, << >>)
           ELSE IF Sign(startingSupply(f.args[1], f.args[2])) # 1
           THEN Finish(t, ErrorInsufficientLiquidityMinted, << >>)
           ELSE Goto(t, "mint0.Lock", <<startingSupply(f.args[1], f.args[2])>>)
    /\ UNCHANGED <<pairs, keyPairs, isDirtyKeyPairs, heap, held, nops, last, locks, calls>>

\* Pair.Mint, lines 207 and 208: each divides by a reserve it reads without
\* the mutex, and the quotient goes to the inner variable.
Mint207(t) ==
    /\ pc[t] \in {"Mint.207", "Mint.208"}
    /\ IF pc[t] = "Mint.207"
       THEN IF Reserves(heap, frame[t].p)[1] = 0 THEN Finish(t, Panic, << >>)
            ELSE Goto(t, "Mint.208", << >>)
       ELSE IF Reserves(heap, frame[t].p)[2] = 0 THEN Finish(t, Panic, << >>)
            ELSE Goto(t, "mint.Lock", << >>)
    /\ UNCHANGED <<pairs, keyPairs, isDirtyKeyPairs, heap, held, nops, last, locks, calls>>

\* Pair.mint holding both mutexes, and the deferred unlocks: at mint0 the call
\* of line 205, at mint the call of line 214, whose liquidity is nil after the
\* else branch.
MintBody(t) ==
    /\ pc[t] \in {"mint0", "mint"}
    /\ LET f == frame[t]
           value == IF pc[t] = "mint0" THEN <<minimumLiquidity>>
                    ELSE IF f.loc = << >> THEN NilInt ELSE f.loc
       IN  /\ heap' = mint(heap, f.p, IF pc[t] = "mint0" THEN addressZero ELSE f.addr, value)
           /\ IF pc[t] = "mint0" THEN Goto(t, "mint.Lock", f.loc)
              ELSE IF value = NilInt THEN Finish(t, Panic, << >>)
              ELSE Goto(t, "update.Lock", f.loc)
    /\ locks' = Unlock(t, {RWMutex(frame[t].p), muBalance(frame[t].p)})
    /\ UNCHANGED <<pairs, keyPairs, isDirtyKeyPairs, held, nops, last, calls>>

\* Pair.burn holding both mutexes, and the deferred unlocks.
BurnBody(t) ==
    /\ pc[t] = "burn"
    /\ heap' = burn(heap, frame[t].p, frame[t].addr, frame[t].args[1])
    /\ Goto(t, "update.Lock", frame[t].loc)
    /\ locks' = Unlock(t, {RWMutex(frame[t].p), muBalance(frame[t].p)})
    /\ UNCHANGED <<pairs, keyPairs, isDirtyKeyPairs, held, nops, last, calls>>

\* The amounts the call passes to update, and what it returns after update.
UpdateBy(f) ==
    CASE f.op = "Mint" -> f.args
      [] f.op = "Burn" -> <<-f.loc[1], -f.loc[2]>>
      [] f.op = "Swap" -> <<f.args[1] - f.args[3], f.args[2] - f.args[4]>>

ReturnOf(f) ==
    CASE f.op = "Mint" -> f.loc
      [] f.op = "Burn" -> f.loc
      [] f.op = "Swap" -> <<f.args[1] - f.args[3], f.args[2] - f.args[4]>>

\* Pair.update holding the mutex: lines 316 and 317, then line 318 and the
\* deferred Unlock.
UpdateBody(t) ==
    /\ pc[t] \in {"update.317", "update.318"}
    /\ IF pc[t] = "update.317"
       THEN /\ heap' = update(heap, frame[t].p, UpdateBy(frame[t])[1], 0)
            /\ Goto(t, "update.318", frame[t].loc)
            /\ UNCHANGED locks
       ELSE /\ heap' = update(heap, frame[t].p, 0, UpdateBy(frame[t])[2])
            /\ Finish(t, Ok, ReturnOf(frame[t]))
            /\ locks' = Unlock(t, {RWMutex(frame[t].p)})
    /\ UNCHANGED <<pairs, keyPairs, isDirtyKeyPairs, held, nops, last, calls>>

\* Pair.Swap, lines 254 to 256
Swap254(t) ==
    /\ pc[t] = "Swap.254"
    /\ IF Sign(frame[t].args[3]) # 1 /\ Sign(frame[t].args[4]) # 1
       THEN Finish(t, ErrorInsufficientOutputAmount, << >>)
       ELSE Goto(t, "Reserves.RLock", << >>)
    /\ UNCHANGED <<pairs, keyPairs, isDirtyKeyPairs, heap, held, nops, last, locks, calls>>

\* Pair.Swap, lines 260 to 269: the two comparisons with the reserves, read
\* through the pointers Reserves returned, then the test of the net amounts.
Swap260(t) ==
    /\ pc[t] \in {"Swap.260a", "Swap.260b"}
    /\ LET a == frame[t].args
       IN  IF pc[t] = "Swap.260a"
           THEN IF a[3] > Reserves(heap, frame[t].p)[1]
                THEN Finish(t, ErrorInsufficientLiquidity, << >>)
                ELSE Goto(t, "Swap.260b", << >>)
           ELSE IF a[4] > Reserves(heap, frame[t].p)[2]
                THEN Finish(t, ErrorInsufficientLiquidity, << >>)
                ELSE IF Sign(a[1] - a[3]) # 1 /\ Sign(a[2] - a[4]) # 1
                THEN Finish(t, ErrorInsufficientInputAmount, << >>)
                ELSE Goto(t, "Swap.271", << >>)
    /\ UNCHANGED <<pairs, keyPairs, isDirtyKeyPairs, heap, held, nops, last, locks, calls>>

\* Pair.Swap, lines 271 and 272: the adjusted balances
Swap271(t) ==
    /\ pc[t] \in {"Swap.271", "Swap.272"}
    /\ LET a == frame[t].args
           r == Reserves(heap, frame[t].p)
       IN  IF pc[t] = "Swap.271"
           THEN Goto(t, "Swap.272", <<Adjusted(a[1] - a[3], r[1], a[1])>>)
           ELSE Goto(t, "Swap.274", <<frame[t].loc[1], Adjusted(a[2] - a[4], r[2], a[2])>>)
    /\ UNCHANGED <<pairs, keyPairs, isDirtyKeyPairs, heap, held, nops, last, locks, calls>>

\* Pair.Swap, lines 274 to 276; the reserves the test read stay in loc.
Swap274(t) ==
    /\ pc[t] = "Swap.274"
    /\ LET r == Reserves(heap, frame[t].p)
           loc == frame[t].loc
       IN  IF KViolated(loc[1], loc[2], r[1], r[2]) THEN Finish(t, ErrorK, << >>)
           ELSE Goto(t, "update.Lock", <<loc[1], loc[2], r[1], r[2]>>)
    /\ UNCHANGED <<pairs, keyPairs, isDirtyKeyPairs, heap, held, nops, last, locks, calls>>

\* The *Pair that CreatePair(0, 1) returns on a new registry.
FirstPair == [rec |-> 1, reserve0 |-> "c0", reserve1 |-> "c1"]

\* The threads start on a new registry, on the registry after CreatePair(0, 1)
\* or on that registry after Mint("a", 2000, 2000).
ConcInit ==
    /\ \/ /\ pairs = << >>
          /\ keyPairs = << >>
          /\ isDirtyKeyPairs = FALSE
          /\ heap = << >>
          /\ held = {}
       \/ /\ pairs = addPair(<< >>, PairKey(0, 1), FirstPair)
          /\ keyPairs = addKeyPair(<< >>, PairKey(0, 1))
          /\ isDirtyKeyPairs = TRUE
          /\ heap \in {<<NewRecord>>, Mint(<<NewRecord>>, FirstPair, "a", 2000, 2000).heap}
          /\ held = {FirstPair}
    /\ nops = 0
    /\ last = [op |-> "New", p |-> NilPair, addr |-> addressZero, args |-> << >>,
               err |-> Ok, ret |-> << >>]
    /\ pc = [t \in Threads |-> "idle"]
    /\ frame = [t \in Threads |-> NoFrame]
    /\ locks = {}
    /\ calls = 0

\* A step of the call of thread t.
Run(t) ==
    \/ LockStep(t)
    \/ RLockStep(t)
    \/ CreatePair120(t)
    \/ PairLookup(t)
    \/ AddPair(t)
    \/ TotalSupplyReturn(t)
    \/ ReservesReturn(t)
    \/ AmountsBody(t)
    \/ BalanceBody(t)
    \/ Mint200(t)
    \/ Mint207(t)
    \/ MintBody(t)
    \/ BurnBody(t)
    \/ UpdateBody(t)
    \/ Swap254(t)
    \/ Swap260(t)
    \/ Swap271(t)
    \/ Swap274(t)

ConcNext == \E t \in Threads : Begin(t) \/ Run(t)

\* The registry and a pool called by the threads.
ConcSpec == ConcInit /\ [][ConcNext]_vars

\* Thread t can take a step of its call: every step but Lock and RLock can
\* be taken at once.
CanRun(t) ==
    /\ pc[t] \notin {"idle", "done"}
    /\ pc[t] \in LockLabels => CanLock(t, LockAt(pc[t], frame[t].p)[1])
    /\ pc[t] \in RLockLabels => CanRLock(t, RLockAt(pc[t], frame[t].p)[1])

\* The scheduler runs every goroutine that can take a step: weak fairness of
\* Run(t), whose steps are enabled exactly when CanRun(t).
ConcFairSpec ==
    ConcSpec /\ \A t \in Threads : ([]<>(~CanRun(t))) \/ ([]<><<Run(t)>>_vars)

(***************************************************************************)
(* The registry: one record for an unordered pair.                         *)
(***************************************************************************)
\* The unordered pairs of distinct tokens, in canonical order.
CanonicalKeys == {PairKey(coinA, coinB) : coinA \in Tokens, coinB \in Tokens} \cap
                 {k \in [TokenA : Tokens, TokenB : Tokens] : isSorted(k)}

\* The number of successful CreatePair calls on the unordered pair of k.
Created(k) == Cardinality({i \in DOMAIN keyPairs : keyPairs[i] = sort(k)})

\* C1: once CreatePair has succeeded on an unordered pair, CreatePair on the
\* pair, in either order of the tokens, fails with PAIR_EXISTS, so that no
\* unordered pair is created twice and the map holds at most one record for it.
C1_PairCreatedOnce ==
    /\ \A k \in CanonicalKeys : Created(k) <= 1
    /\ \A k1 \in DOMAIN pairs, k2 \in DOMAIN pairs : sort(k1) = sort(k2) => k1 = k2

\* C2: after a successful CreatePair(X, Y), Pair(X, Y) and Pair(Y, X) both
\* return the record created, never nil; Pair returns nil only for an unordered
\* pair no CreatePair has succeeded on.
C2_PairFindsCreated ==
    /\ (last.op = "CreatePair" /\ last.err = Ok) =>
          /\ Pair(last.args[1], last.args[2]).rec = last.p.rec
          /\ Pair(last.args[2], last.args[1]).rec = last.p.rec
    /\ \A k \in CanonicalKeys :
          Created(k) > 0 =>
              /\ Pair(k.TokenA, k.TokenB) # NilPair
              /\ Pair(k.TokenB, k.TokenA) # NilPair

\* The reads of two *Pair values agree, with index 0 and index 1 exchanged.
OrientedAlike(p, q) ==
    /\ \A address \in Addresses : Balance(heap, p, address) = Balance(heap, q, address)
    /\ TotalSupply(heap, p) = TotalSupply(heap, q)
    /\ Reserves(heap, p) = <<Reserves(heap, q)[2], Reserves(heap, q)[1]>>
    /\ TotalSupply(heap, p) # 0 =>
          \A liquidity \in {1, 500, 1000} :
              Amounts(heap, p, liquidity) =
                  <<Amounts(heap, q, liquidity)[2], Amounts(heap, q, liquidity)[1]>>

\* C3: for a created pool, after any calls of Mint, Burn and Swap through
\* either orientation, Pair(A, B) and Pair(B, A) are views of the pool that
\* report the same balances and total supply, and each other's reserves and
\* amounts with index 0 and index 1 exchanged.
C3_OrientationsAgree ==
    \A k \in CanonicalKeys :
        Created(k) > 0 =>
            /\ Pair(k.TokenA, k.TokenB) # NilPair
            /\ Pair(k.TokenB, k.TokenA) # NilPair
            /\ OrientedAlike(Pair(k.TokenA, k.TokenB), Pair(k.TokenB, k.TokenA))

\* The part of C3 that does hold: the two views Pair does return agree.
FoundOrientationsAgree ==
    \A k \in CanonicalKeys :
        Pair(k.TokenA, k.TokenB) # NilPair =>
            /\ Pair(k.TokenB, k.TokenA) # NilPair
            /\ OrientedAlike(Pair(k.TokenA, k.TokenB), Pair(k.TokenB, k.TokenA))

(***************************************************************************)
(* Mint, Burn and Swap.  In the formulas below a step is the call that     *)
(* last' records; the unprimed heap is the state before the call.          *)
(***************************************************************************)
Min(m, n) == IF m <= n THEN m ELSE n

\* C4: a first Mint (total supply 0) of amounts that are not negative, to an
\* address other than the zero address, returns floor(sqrt(amount0 * amount1))
\* - 1000 when that is positive, and then the address holds that liquidity, the
\* zero address holds 1000, the total supply is their sum and the reserves are
\* the amounts; otherwise it fails with INSUFFICIENT_LIQUIDITY_MINTED and
\* changes nothing.
C4_FirstMint ==
    [][(/\ last'.op = "Mint"
        /\ TotalSupply(heap, last'.p) = 0
        /\ last'.args[1] >= 0
        /\ last'.args[2] >= 0
        /\ last'.addr # addressZero)
       => LET product == last'.args[1] * last'.args[2]
          IN  IF product >= (minimumLiquidity + 1) * (minimumLiquidity + 1)
              THEN /\ last'.err = Ok
                   /\ Len(last'.ret) = 1
                   /\ (last'.ret[1] + 1000) * (last'.ret[1] + 1000) <= product
                   /\ product < (last'.ret[1] + 1001) * (last'.ret[1] + 1001)
                   /\ Balance(heap', last'.p, last'.addr) = last'.ret
                   /\ Balance(heap', last'.p, addressZero) = <<1000>>
                   /\ TotalSupply(heap', last'.p) = last'.ret[1] + 1000
                   /\ Reserves(heap', last'.p) = last'.args
              ELSE /\ last'.err = ErrorInsufficientLiquidityMinted
                   /\ heap' = heap]_vars

\* A first Mint of 4000 and 2000 has returned 1828 = floor(sqrt(8000000)) - 1000.
C4_Witness ==
    /\ last.op = "Mint" /\ last.err = Ok /\ last.addr = "a"
    /\ last.args = <<4000, 2000>> /\ last.ret = <<1828>>

\* C5: a Mint of positive amounts on a pool whose total supply is positive returns the smaller of
\* floor(totalSupply * amount0 / reserve0) and floor(totalSupply * amount1 /
\* reserve1) of the state before the call, and adds it to the balance of the
\* address and to the total supply, and the amounts to the reserves.
C5_LaterMint ==
    [][(/\ last'.op = "Mint"
        /\ last'.args[1] > 0
        /\ last'.args[2] > 0
        /\ TotalSupply(heap, last'.p) > 0
        /\ Reserves(heap, last'.p)[1] > 0
        /\ Reserves(heap, last'.p)[2] > 0)
       => LET ts == TotalSupply(heap, last'.p)
              r == Reserves(heap, last'.p)
              old == IF Balance(heap, last'.p, last'.addr) = NilInt THEN 0
                     ELSE Balance(heap, last'.p, last'.addr)[1]
              liquidity == Min((ts * last'.args[1]) \div r[1], (ts * last'.args[2]) \div r[2])
          IN  /\ last'.err = Ok
              /\ last'.ret = <<liquidity>>
              /\ Balance(heap', last'.p, last'.addr) = <<old + liquidity>>
              /\ TotalSupply(heap', last'.p) = ts + liquidity
              /\ Reserves(heap', last'.p) = <<r[1] + last'.args[1], r[2] + last'.args[2]>>]_vars

\* C6: a Burn of a liquidity that is positive and at most the balance of the
\* address computes floor(liquidity * reserve / totalSupply) for both reserves
\* of the state before the call and, when both are positive, returns them,
\* subtracts the liquidity from the balance and the total supply and the
\* amounts from the reserves, and changes the balance of no other address.
C6_Burn ==
    [][(/\ last'.op = "Burn"
        /\ Balance(heap, last'.p, last'.addr) # NilInt
        /\ 0 < last'.args[1]
        /\ last'.args[1] <= Balance(heap, last'.p, last'.addr)[1])
       => /\ TotalSupply(heap, last'.p) > 0
          /\ LET ts == TotalSupply(heap, last'.p)
                 r == Reserves(heap, last'.p)
                 amount0 == (last'.args[1] * r[1]) \div ts
                 amount1 == (last'.args[1] * r[2]) \div ts
             IN  (amount0 > 0 /\ amount1 > 0) =>
                    /\ last'.err = Ok
                    /\ last'.ret = <<amount0, amount1>>
                    /\ Balance(heap', last'.p, last'.addr) =
                          <<Balance(heap, last'.p, last'.addr)[1] - last'.args[1]>>
                    /\ TotalSupply(heap', last'.p) = ts - last'.args[1]
                    /\ Reserves(heap', last'.p) = <<r[1] - amount0, r[2] - amount1>>
                    /\ \A other \in Addresses \ {last'.addr} :
                          Balance(heap', last'.p, other) = Balance(heap, last'.p, other)]_vars

\* A Burn of 500 of the 1828 minted for 4000 and 2000 has returned
\* floor(500 * 4000 / 2828) and floor(500 * 2000 / 2828).
C6_Witness ==
    /\ last.op = "Burn" /\ last.err = Ok /\ last.addr = "a"
    /\ last.args = <<500>> /\ last.ret = <<707, 353>>
    /\ TotalSupply(heap, last.p) = 2328

\* C7: Burn fails with INSUFFICIENT_LIQUIDITY_BURNED when the balances map
\* does not hold the address, when the liquidity exceeds the balance, and when
\* one of the computed amounts is not positive; reserves, total supply,
\* balances and both flags are then as before the call.
C7_BurnFails ==
    [][(/\ last'.op = "Burn"
        /\ \/ Balance(heap, last'.p, last'.addr) = NilInt
           \/ last'.args[1] > Balance(heap, last'.p, last'.addr)[1]
           \/ /\ TotalSupply(heap, last'.p) # 0
              /\ \/ Div(last'.args[1] * Reserves(heap, last'.p)[1], TotalSupply(heap, last'.p)) <= 0
                 \/ Div(last'.args[1] * Reserves(heap, last'.p)[2], TotalSupply(heap, last'.p)) <= 0)
       => /\ last'.err = ErrorInsufficientLiquidityBurned
          /\ heap' = heap]_vars

\* A Burn of liquidity 0 by a holder has failed: its amounts are 0.
C7_Witness ==
    /\ last.op = "Burn" /\ last.err = ErrorInsufficientLiquidityBurned
    /\ last.args = <<0>>
    /\ Balance(heap, last.p, last.addr) # NilInt
    /\ TotalSupply(heap, last.p) > 0

\* A successful Mint of positive amounts to an address other than the zero
\* address, followed at once by a Burn, through the same *Pair and by the
\* same address, of the liquidity the Mint returned.
MintThenBurn ==
    /\ last.op = "Mint" /\ last.err = Ok /\ last.addr # addressZero
    /\ last.args[1] > 0 /\ last.args[2] > 0
    /\ last'.op = "Burn" /\ last'.p = last.p /\ last'.addr = last.addr
    /\ last'.args = last.ret

\* C8: a Mint followed at once by a Burn by the same holder of the liquidity
\* the Mint returned succeeds; after a first Mint of amount0 and amount1 the
\* Burn returns amount0 - 1000 and amount1 - 1000, the holder's balance is 0,
\* the zero address holds 1000 and the total supply is 1000.
C8_MintThenBurn ==
    [][MintThenBurn
       => /\ last'.err = Ok
          /\ last'.ret = <<last.args[1] - 1000, last.args[2] - 1000>>
          /\ Balance(heap', last'.p, last'.addr) = <<0>>
          /\ Balance(heap', last'.p, addressZero) = <<1000>>
          /\ TotalSupply(heap', last'.p) = 1000]_vars

\* C8 as amended: the Burn computes floor(liquidity * amount / (liquidity +
\* 1000)) for both amounts of the Mint; when both are positive it succeeds and
\* returns them, the reserves keep the rest, the holder's balance is 0, the
\* zero address holds 1000 and the total supply is 1000, and for amount0 =
\* amount1 the amounts returned are amount0 - 1000 and amount1 - 1000;
\* otherwise it fails with INSUFFICIENT_LIQUIDITY_BURNED and changes nothing.
C8_MintThenBurnAmended ==
    [][MintThenBurn
       => LET liquidity == last.ret[1]
              amount0 == (liquidity * last.args[1]) \div (liquidity + 1000)
              amount1 == (liquidity * last.args[2]) \div (liquidity + 1000)
          IN  IF amount0 > 0 /\ amount1 > 0
              THEN /\ last'.err = Ok
                   /\ last'.ret = <<amount0, amount1>>
                   /\ Reserves(heap', last'.p) =
                          <<last.args[1] - amount0, last.args[2] - amount1>>
                   /\ Balance(heap', last'.p, last'.addr) = <<0>>
                   /\ Balance(heap', last'.p, addressZero) = <<1000>>
                   /\ TotalSupply(heap', last'.p) = 1000
                   /\ last.args[1] = last.args[2] =>
                          last'.ret = <<last.args[1] - 1000, last.args[2] - 1000>>
              ELSE /\ last'.err = ErrorInsufficientLiquidityBurned
                   /\ heap' = heap]_vars

\* The 1828 minted for 4000 and 2000 have been burned at once, for
\* floor(1828 * 4000 / 2828) and floor(1828 * 2000 / 2828).
C8_Witness ==
    /\ last.op = "Burn" /\ last.err = Ok /\ last.addr = "a"
    /\ last.args = <<1828>> /\ last.ret = <<2585, 1292>>
    /\ Reserves(heap, last.p) = <<1415, 708>>
    /\ nops = 2

\* A one-sided Swap of x for y on reserves rIn and rOut: with positive
\* reserves and x > 0, every y from 1 to floor(997 * x * rOut / (1000 * rIn +
\* 997 * x)) succeeds, with the net amounts returned and the reserves newRes,
\* and every larger y up to rOut fails with K.
OneSided(x, y, rIn, rOut, net, newRes) ==
    (x > 0 /\ rIn > 0 /\ rOut > 0) =>
        /\ (0 < y /\ y <= MaxOut(x, rIn, rOut)) =>
              /\ last'.err = Ok
              /\ last'.ret = net
              /\ Reserves(heap', last'.p) = newRes
        /\ (MaxOut(x, rIn, rOut) < y /\ y <= rOut) =>
              /\ last'.err = ErrorK
              /\ heap' = heap

\* C9: on positive reserves, the largest output a Swap that pays x > 0 of one
\* token accepts of the other token is yMax = floor(997 * x * rOut / (1000 *
\* rIn + 997 * x)): the Swap for yMax > 0 succeeds, returns +x and -yMax and
\* moves the reserves by them, the Swap for yMax + 1 fails with K; for an
\* input of token0 and for an input of token1.
C9_SwapMaxOut ==
    [][last'.op = "Swap"
       => LET a == last'.args
              r == Reserves(heap, last'.p)
          IN  /\ (a[2] = 0 /\ a[3] = 0) =>
                    OneSided(a[1], a[4], r[1], r[2],
                             <<a[1], -a[4]>>, <<r[1] + a[1], r[2] - a[4]>>)
              /\ (a[1] = 0 /\ a[4] = 0) =>
                    OneSided(a[2], a[3], r[2], r[1],
                             <<-a[3], a[2]>>, <<r[1] - a[3], r[2] + a[2]>>)]_vars

\* On reserves 2000 and 2000 a Swap of 100 of token1 has taken 94 of token0.
C9_Witness ==
    /\ last.op = "Swap" /\ last.err = Ok
    /\ last.args = <<0, 100, 94, 0>> /\ last.ret = <<-94, 100>>
    /\ Reserves(heap, last.p) = <<1906, 2100>>

\* The product of two natural numbers below 2^31, as <<q, r>> with
\* m * n = q * 1000000 + r and r < 1000000.
Millions(m, n) ==
    LET cross == (m \div 1000) * (n % 1000) + (m % 1000) * (n \div 1000)
        low == 1000 * (cross % 1000) + (m % 1000) * (n % 1000)
    IN  <<(m \div 1000) * (n \div 1000) + cross \div 1000 + low \div 1000000, low % 1000000>>

\* m * n < c * 1000000, for integers
ProductBelow(m, n, c) ==
    LET product == Millions(IF m < 0 THEN -m ELSE m, IF n < 0 THEN -n ELSE n)
    IN  IF (m >= 0 /\ n >= 0) \/ (m <= 0 /\ n <= 0)
        THEN c > 0 /\ product[1] < c
        ELSE c >= 0 \/ product[1] > -c \/ (product[1] = -c /\ product[2] > 0)

\* C10: for a Swap that succeeds, the product of the adjusted balances
\* (reserve + amountIn - amountOut) * 1000 - amountIn * 3, of the reserves
\* before the Swap, is at least reserve0 * reserve1 * 1000000; a Swap for
\* which it is smaller leaves the reserves as they were.
C10_KHolds ==
    [][last'.op = "Swap"
       => LET a == last'.args
              r == Reserves(heap, last'.p)
              adjusted0 == (r[1] + a[1] - a[3]) * 1000 - a[1] * 3
              adjusted1 == (r[2] + a[2] - a[4]) * 1000 - a[2] * 3
              smaller == ProductBelow(adjusted0, adjusted1, r[1] * r[2])
          IN  /\ last'.err = Ok => ~smaller
              /\ smaller => Reserves(heap', last'.p) = Reserves(heap, last'.p)]_vars

\* A Swap that pays and takes both tokens has succeeded.
C10_Witness ==
    /\ last.op = "Swap" /\ last.err = Ok
    /\ last.args = <<100, 100, 50, 50>> /\ last.ret = <<50, 50>>

(***************************************************************************)
(* Errors and invariants of a pool.                                        *)
(***************************************************************************)
\* C11: Swap returns the first of its failing tests, in the order:
\* INSUFFICIENT_OUTPUT_AMOUNT when neither output is positive,
\* INSUFFICIENT_LIQUIDITY when an output exceeds its reserve,
\* INSUFFICIENT_INPUT_AMOUNT when neither net amount is positive, K when the
\* product of the adjusted balances is too small; a failing Swap leaves the
\* reserves, the total supply, the balances and both flags as they were.
C11_SwapErrors ==
    [][last'.op = "Swap"
       => LET a == last'.args
              r == Reserves(heap, last'.p)
              adjusted0 == (r[1] + a[1] - a[3]) * 1000 - a[1] * 3
              adjusted1 == (r[2] + a[2] - a[4]) * 1000 - a[2] * 3
          IN  /\ last'.err =
                    IF a[3] <= 0 /\ a[4] <= 0 THEN ErrorInsufficientOutputAmount
                    ELSE IF a[3] > r[1] \/ a[4] > r[2] THEN ErrorInsufficientLiquidity
                    ELSE IF a[1] - a[3] <= 0 /\ a[2] - a[4] <= 0
                    THEN ErrorInsufficientInputAmount
                    ELSE IF ProductBelow(adjusted0, adjusted1, r[1] * r[2]) THEN ErrorK
                    ELSE Ok
              /\ last'.err # Ok => heap' = heap]_vars

\* A Swap that takes 10 of token0 from sufficient reserves and pays nothing
\* has failed with INSUFFICIENT_INPUT_AMOUNT; its product is too small as well.
C11_Witness ==
    /\ last.op = "Swap" /\ last.err = ErrorInsufficientInputAmount
    /\ last.args = <<0, 0, 10, 0>>
    /\ Reserves(heap, last.p)[1] >= 10
    /\ Reserves(heap, last.p)[2] > 0

RECURSIVE SumOver(_, _)
\* The sum of the balances b of the addresses S.
SumOver(b, S) ==
    IF S = {} THEN 0
    ELSE LET a == CHOOSE x \in S : TRUE
         IN  b[a] + SumOver(b, S \ {a})

\* C12: in every state that calls of Mint, Burn and Swap reach, in sequence
\* or interleaved, the total supply of a pool is the sum of the balances of
\* its holders, the zero address among them.
C12_SupplyIsSum ==
    \A i \in DOMAIN heap :
        heap[i].totalSupply = SumOver(heap[i].balances, DOMAIN heap[i].balances)

\* Two threads have each made a first Mint of 1000 and 4000 on the empty pool:
\* each added 1000 to the zero address and 1000 to "a".
C12_Witness ==
    /\ \A t \in Threads : pc[t] = "done" /\ frame[t].op = "Mint" /\ frame[t].err = Ok
    /\ heap[1].totalSupply = 4000
    /\ heap[1].balances[addressZero] = 2000

\* The balance of the zero address in record rec; 0 when the map lacks it.
ZeroBalance(rec) ==
    IF addressZero \in DOMAIN rec.balances THEN rec.balances[addressZero] ELSE 0

\* C13: once the total supply of a pool is positive, after every call of Mint,
\* Burn and Swap, for any holder address, the zero address holds at least 1000
\* and the total supply is not 0 again.
C13_ZeroAddressFloor ==
    /\ [](\A i \in DOMAIN heap :
             heap[i].totalSupply > 0 => ZeroBalance(heap[i]) >= minimumLiquidity)
    /\ [][\A i \in DOMAIN heap : heap[i].totalSupply > 0 => heap'[i].totalSupply # 0]_vars

\* C14: in every state that calls of Mint, Burn and Swap reach, whatever
\* signed amounts the callers pass, both reserves of a pool are at least 0.
C14_ReservesNotNegative ==
    \A i \in DOMAIN heap : heap[i].c0 >= 0 /\ heap[i].c1 >= 0

\* C18: every call of CreatePair, Mint, Burn and Swap, in every state and for
\* every argument, returns a result or one of the errors; none panics.
C18_NoPanic == last.err # Panic

\* C19: a successful Mint, Burn or Swap leaves isDirty of the record true; a
\* successful Mint or Burn leaves isDirtyBalances true as well; Swap leaves
\* isDirtyBalances as it was; no call of the core resets a flag that is true;
\* and the views Pair returns in the two orders of the tokens of a pool show
\* the same flags.
C19_DirtyFlags ==
    [][/\ (last'.op \in {"Mint", "Burn", "Swap"} /\ last'.err = Ok) =>
              heap'[last'.p.rec].isDirty
       /\ (last'.op \in {"Mint", "Burn"} /\ last'.err = Ok) =>
              heap'[last'.p.rec].isDirtyBalances
       /\ last'.op = "Swap" =>
              heap'[last'.p.rec].isDirtyBalances = heap[last'.p.rec].isDirtyBalances
       /\ \A i \in DOMAIN heap :
              /\ heap[i].isDirty => heap'[i].isDirty
              /\ heap[i].isDirtyBalances => heap'[i].isDirtyBalances
       /\ isDirtyKeyPairs => isDirtyKeyPairs'
       /\ \A k \in CanonicalKeys :
              LET p == pair(pairs', k)
                  q == pair(pairs', KeyRevert(k))
              IN  (p # NilPair /\ q # NilPair) =>
                     /\ heap'[p.rec].isDirty = heap'[q.rec].isDirty
                     /\ heap'[p.rec].isDirtyBalances = heap'[q.rec].isDirtyBalances]_vars

\* A Swap through the view Pair(1, 0) has succeeded on a pool whose flags a
\* Mint had set, and Pair(0, 1) finds both flags true.
C19_Witness ==
    /\ last.op = "Swap" /\ last.err = Ok
    /\ last.p = Pair(1, 0)
    /\ Pair(0, 1) # NilPair
    /\ heap[Pair(0, 1).rec].isDirty
    /\ heap[Pair(0, 1).rec].isDirtyBalances

(***************************************************************************)
(* Threads.                                                                *)
(***************************************************************************)
\* The threads whose call has returned without error.
Succeeded == {t \in Threads : pc[t] = "done" /\ frame[t].err = Ok}

\* C15: when two threads call CreatePair on one unordered pair that no record
\* exists for, in the same or in opposite orders of the tokens, then however
\* their steps interleave one call succeeds and the other fails with
\* PAIR_EXISTS, the map holds one record for the pair and the key list has
\* gained one entry.
C15_OneCreatePairWins ==
    (/\ \A t \in Threads : pc[t] = "done" /\ frame[t].op = "CreatePair"
     /\ \A t \in Threads : frame[t].args[1] # frame[t].args[2]
     /\ \A t, u \in Threads :
           sort(PairKey(frame[t].args[1], frame[t].args[2])) =
               sort(PairKey(frame[u].args[1], frame[u].args[2]))
     /\ Created(PairKey(frame[1].args[1], frame[1].args[2])) = Cardinality(Succeeded))
    => /\ Cardinality(Succeeded) = 1
       /\ \A t \in Threads \ Succeeded : frame[t].err = ErrorPairExists
       /\ Created(PairKey(frame[1].args[1], frame[1].args[2])) = 1
       /\ Cardinality({k \in DOMAIN pairs :
                          sort(k) = sort(PairKey(frame[1].args[1], frame[1].args[2]))}) = 1
       /\ Len(heap) = 1

\* C16: no call changes the reserves between the tests of a Swap and its
\* update: when a Swap holds the mutex in update, the reserves are those its
\* test of the product read.
C16_SwapExcludesWriters ==
    \A t \in Threads :
        (frame[t].op = "Swap" /\ pc[t] = "update.317") =>
            Reserves(heap, frame[t].p) = <<frame[t].loc[3], frame[t].loc[4]>>

\* The reads of a pool.
ReadOps == {"TotalSupply", "Reserves", "Amounts", "Balance"}

\* What the read of frame f returns on heap hp: the error and the results.
ReadOn(hp, f) ==
    CASE f.op = "TotalSupply" -> <<Ok, <<TotalSupply(hp, f.p)>>>>
      [] f.op = "Reserves" -> <<Ok, Reserves(hp, f.p)>>
      [] f.op = "Amounts" -> IF TotalSupply(hp, f.p) = 0 THEN <<Panic, << >>>>
                             ELSE <<Ok, Amounts(hp, f.p, f.args[1])>>
      [] f.op = "Balance" -> <<Ok, Balance(hp, f.p, f.addr)>>

\* The heap after the whole Mint or Burn of frame f, made on the heap the
\* call started on.
Whole(f) ==
    IF f.op = "Mint" THEN Mint(f.h0, f.p, f.addr, f.args[1], f.args[2]).heap
    ELSE Burn(f.h0, f.p, f.addr, f.args[1]).heap

\* C17: a read (Reserves, TotalSupply, Amounts, Balance) made while another
\* thread makes a Mint or a Burn returns what it returns before the Mint or
\* Burn or what it returns after the whole of it, never a value of a state
\* with a part of its effects.
C17_MintBurnAtomic ==
    \A t, u \in Threads :
        (/\ pc[t] = "done"
         /\ frame[t].op \in ReadOps
         /\ frame[u].op \in {"Mint", "Burn"})
        => <<frame[t].err, frame[t].ret>> \in
               {ReadOn(frame[u].h0, frame[t]), ReadOn(Whole(frame[u]), frame[t])}

\* The mutexes thread t holds.
HeldBy(t) == {h.mu : h \in {g \in locks : g.t = t /\ g.mode # "pending"}}

\* A thread that calls Lock or RLock holds no mutex, except the mutex of the
\* reserves and the supply when it locks the mutex of the balances: no lock is
\* taken under muPairs, and never the balances before the reserves.
LockOrderKept ==
    \A t \in Threads :
        /\ pc[t] \in LockLabels =>
              HeldBy(t) \subseteq
                  (IF LockAt(pc[t], frame[t].p)[1] = muBalance(frame[t].p)
                   THEN {RWMutex(frame[t].p)} ELSE {})
        /\ pc[t] \in RLockLabels => HeldBy(t) = {}

\* While a call is being made some thread can take a step.
NoDeadlock ==
    (\E t \in Threads : pc[t] \notin {"idle", "done"}) => \E t \in Threads : CanRun(t)

\* Every call that is started ends, by a return or a panic.
EveryCallEnds == \A t \in Threads : (pc[t] \notin {"idle", "done"}) ~> (pc[t] = "done")

\* C20: a thread takes the mutex of the reserves and the supply before the
\* mutex of the balances and takes no mutex while it holds muPairs, the
\* threads calling the registry and a pool through either orientation never
\* deadlock, and every call returns (Amounts but on a pool that has a supply).
C20_LockOrderAllReturn ==
    /\ LockOrderKept
    /\ NoDeadlock
    /\ \A t \in Threads : (pc[t] = "done" /\ frame[t].op # "Amounts") => frame[t].err # Panic

\* The balance the holder of frame f had in the pool of f on heap hp; 0 when
\* the map lacks the holder.
HeldOn(hp, f) ==
    IF Balance(hp, f.p, f.addr) = NilInt THEN 0 ELSE Balance(hp, f.p, f.addr)[1]

\* The threads whose Burn has returned amounts.
Burners == {t \in Threads : pc[t] = "done" /\ frame[t].op = "Burn" /\ frame[t].err = Ok}

\* C21: no balance of a pool is negative; and when two threads have made a
\* Burn for one holder of one pool, however their steps interleaved, the
\* liquidity they burned together is at most the balance the holder had when
\* the first of them started, and the amounts they were paid together are at
\* most the share of the reserves that balance stood for.
C21_BurnsWithinBalance ==
    /\ \A i \in DOMAIN heap :
           \A a \in DOMAIN heap[i].balances : heap[i].balances[a] >= 0
    /\ (/\ Burners = Threads
        /\ frame[1].p.rec = frame[2].p.rec
        /\ frame[1].addr = frame[2].addr)
       => LET had == IF HeldOn(frame[1].h0, frame[1]) >= HeldOn(frame[2].h0, frame[2])
                     THEN 1 ELSE 2
              h0 == frame[had].h0
              balance == HeldOn(h0, frame[had])
              paid(n) == (IF frame[1].p.reserve0 = frame[had].p.reserve0
                          THEN frame[1].ret[n] ELSE frame[1].ret[3 - n])
                           + (IF frame[2].p.reserve0 = frame[had].p.reserve0
                              THEN frame[2].ret[n] ELSE frame[2].ret[3 - n])
          IN  /\ frame[1].args[1] + frame[2].args[1] <= balance
              /\ paid(1) <= Amounts(h0, frame[had].p, balance)[1]
              /\ paid(2) <= Amounts(h0, frame[had].p, balance)[2]

====
